---- MODULE Spec2Model ----
(***************************************************************************)
(* A model of MemoryLruCache (src/src/lib.rs): an LRU cache bounded by the *)
(* cumulative resident size of its values.  The cache wraps lru::LruCache  *)
(* (`inner`), keeps a running total `cur_size` and evicts least recently    *)
(* used entries in readjust_down until the total is within `max_size`.     *)
(*                                                                         *)
(* `inner` is the recency list of the LruCache, least recently used entry  *)
(* first, most recently used entry last; `cap` is its item-count capacity. *)
(* `last` records the most recent call: its name, arguments, locals and    *)
(* return value.  An Option is a sequence: <<>> is None, <<v>> is Some(v). *)
(* `arith` tells how usize arithmetic has gone so far: "exact" while no     *)
(* `+=` has left the range of usize, "wrapped" once one has wrapped around *)
(* (a build without overflow checks), "panicked" once one has panicked (a  *)
(* build with overflow checks; the call unwinds and nothing runs after).   *)
(***************************************************************************)
EXTENDS Integers, Sequences, FiniteSets, TLC

VARIABLES inner, cap, cur_size, max_size, last, arith

vars == <<inner, cap, cur_size, max_size, last, arith>>
cache == <<inner, cap, cur_size, max_size>>

(* ------------------------------ bounds -------------------------------- *)

\* number of distinct keys the callers use
NumKeys == 3
\* largest resident_size of a value handed to the cache
MaxVal == 2
\* largest budget handed to new()
MaxBudget == 2
\* width of usize in bits
W == 5

Keys == 1..NumKeys
Sizes == 0..MaxVal
Budgets == 0..MaxBudget
\* a value is known to the cache by its resident size only (Vec<u8> of that length)
Values == [size : Sizes]
Word == 2^W
WordMax == Word - 1

\* the sizes and budgets that reach the ends of the machine word
WKeys == {1, 2}
WValues == [size : {0, 1, WordMax}]
WBudgets == {1, WordMax}

(* --------------------------- program constants ------------------------ *)

INITIAL_CAPACITY == 4

\* tests::it_works_if_cur_size_equals_max_size: MemoryLruCache::new(8), keys
\* 1..5, values of two bytes
TestMaxSize == 8
TestNumKeys == 5
TestValLen == 2
TestKeys == 1..TestNumKeys
TestValues == [size : 1..TestValLen]

(* ------------------------------- helpers ------------------------------ *)

None == <<>>
Some(v) == <<v>>

\* ResidentSize::resident_size of a value
resident_size(v) == v.size

\* Option::map_or(0, |v| v.resident_size())
map_or_size(opt) == IF opt = None THEN 0 ELSE resident_size(opt[1])

\* usize `+=` and `-=` (two's complement wrap-around at the word width)
AddUsize(a, b) == (a + b) % Word
SubUsize(a, b) == (a - b + Word) % Word

\* usize::saturating_mul(2)
SaturatingMul2(c) == IF c * 2 > WordMax THEN WordMax ELSE c * 2

KeysOf(list) == {list[i].key : i \in 1..Len(list)}

IndexOf(list, k) == CHOOSE i \in 1..Len(list) : list[i].key = k

Without(list, k) == SelectSeq(list, LAMBDA e : e.key # k)

RECURSIVE SumSizes(_)
SumSizes(list) ==
    IF list = <<>> THEN 0 ELSE resident_size(Head(list).val) + SumSizes(Tail(list))

(* ---------------------- lru::LruCache operations ---------------------- *)

\* LruCache::peek: the value under k, recency list untouched
LruPeek(list, k) ==
    IF k \in KeysOf(list) THEN Some(list[IndexOf(list, k)].val) ELSE None

\* LruCache::contains
LruContains(list, k) == k \in KeysOf(list)

\* LruCache::get / get_mut: the entry under k moves to the most recently
\* used end of the recency list
LruPromote(list, k) ==
    IF k \in KeysOf(list)
    THEN Append(Without(list, k), list[IndexOf(list, k)])
    ELSE list

\* LruCache::put: replaces and promotes an existing key and returns the old
\* value; a new key is appended, and when the cache is at capacity the least
\* recently used entry is dropped first without being returned.
LruPut(list, c, k, v) ==
    IF k \in KeysOf(list)
    THEN [list |-> Append(Without(list, k), [key |-> k, val |-> v]),
          old  |-> Some(list[IndexOf(list, k)].val)]
    ELSE IF Len(list) >= c
    THEN [list |-> Append(Tail(list), [key |-> k, val |-> v]), old |-> None]
    ELSE [list |-> Append(list, [key |-> k, val |-> v]), old |-> None]

\* LruCache::pop_lru: removes and returns the least recently used entry
LruPopLru(list) ==
    IF list = <<>> THEN [list |-> list, popped |-> None]
    ELSE [list |-> Tail(list), popped |-> Some(Head(list))]

(* --------------------------- readjust_down ---------------------------- *)

\* The loop of readjust_down is unrolled by recursion.  `run` is its progress:
\* the entries popped so far, the iterations of the loop body so far, and
\* whether a `-=` so far subtracted more than cur_size held.
NoRun == [evicted |-> <<>>, iters |-> 0, under |-> FALSE]

\* the loop is left
Left(list, cur, run) ==
    [list |-> list, cur |-> cur, evicted |-> run.evicted, iters |-> run.iters,
     under |-> run.under]

\* one more iteration, which popped entry e while the total was cur
Popped(run, e, cur) ==
    [evicted |-> Append(run.evicted, e), iters |-> run.iters + 1,
     under |-> run.under \/ resident_size(e.val) > cur]

\* one more iteration, which found nothing to pop
Broke(run) == [run EXCEPT !.iters = @ + 1]

\* variant: popped entries are not subtracted from the running total
RECURSIVE readjust_down_nosub(_, _, _, _)
readjust_down_nosub(list, cur, max, run) ==
    IF cur > max
    THEN IF list = <<>>
         THEN Left(list, cur, Broke(run))
         ELSE readjust_down_nosub(Tail(list), cur, max, Popped(run, Head(list), cur))
    ELSE Left(list, cur, run)

\* variant: `if` in place of `while`, at most one entry is popped
readjust_down_once(list, cur, max, run) ==
    IF cur > max /\ list # <<>>
    THEN Left(Tail(list), SubUsize(cur, resident_size(Head(list).val)),
              Popped(run, Head(list), cur))
    ELSE Left(list, cur, run)

\* variant: the loop never pops the only remaining entry
RECURSIVE readjust_down_keep_last(_, _, _, _)
readjust_down_keep_last(list, cur, max, run) ==
    IF cur > max /\ Len(list) > 1
    THEN readjust_down_keep_last(Tail(list),
                                 SubUsize(cur, resident_size(Head(list).val)),
                                 max,
                                 Popped(run, Head(list), cur))
    ELSE Left(list, cur, run)

\* variant: the loop pops the most recently used entry
RECURSIVE readjust_down_mru(_, _, _, _)
readjust_down_mru(list, cur, max, run) ==
    IF cur > max /\ list # <<>>
    THEN readjust_down_mru(SubSeq(list, 1, Len(list) - 1),
                           SubUsize(cur, resident_size(list[Len(list)].val)),
                           max,
                           Popped(run, list[Len(list)], cur))
    ELSE Left(list, cur, run)

\* variant: `>=` in place of `>` in the loop condition
RECURSIVE readjust_down_ge(_, _, _, _)
readjust_down_ge(list, cur, max, run) ==
    IF cur >= max /\ list # <<>>
    THEN readjust_down_ge(Tail(list),
                          SubUsize(cur, resident_size(Head(list).val)),
                          max,
                          Popped(run, Head(list), cur))
    ELSE Left(list, cur, run)

\* a pass that, once over budget, pops every entry instead of stopping as
\* soon as the total fits
RECURSIVE readjust_down_all(_, _, _, _)
readjust_down_all(list, cur, max, run) ==
    IF (cur > max \/ run.iters > 0) /\ list # <<>>
    THEN readjust_down_all(Tail(list),
                           SubUsize(cur, resident_size(Head(list).val)),
                           max,
                           Popped(run, Head(list), cur))
    ELSE Left(list, cur, run)

\* while self.cur_size > self.max_size { match self.inner.pop_lru() {
\*     Some((_, v)) => self.cur_size -= v.resident_size(), _ => break } }
RECURSIVE readjust_down(_, _, _, _)
readjust_down(list, cur, max, run) ==
    IF cur > max
    THEN IF LruPopLru(list).popped = None
         THEN Left(list, cur, Broke(run))
         ELSE readjust_down(LruPopLru(list).list,
                            SubUsize(cur,
                                     resident_size(LruPopLru(list).popped[1].val)),
                            max,
                            Popped(run, LruPopLru(list).popped[1], cur))
    ELSE Left(list, cur, run)

(* ------------------------------- state -------------------------------- *)

\* the record of a call that ran no eviction loop
Call(op, k, val, ret) ==
    [op |-> op, key |-> k, val |-> val, ret |-> ret, displaced |-> None,
     evicted |-> <<>>, iters |-> 0, under |-> FALSE]

NoCall == Call("new", 0, None, None)

\* no call has panicked: the program is still running
Running == arith # "panicked"

\* MemoryLruCache::new(max_size)
Init ==
    /\ max_size \in Budgets
    /\ inner = <<>>
    /\ cap = INITIAL_CAPACITY
    /\ cur_size = 0
    /\ last = NoCall
    /\ arith = "exact"

\* variant: the store is never grown
insert_cap_fixed(list, c) == c

\* insert, the grow step: if self.inner.len() == cap
\*     { self.inner.resize(cap.saturating_mul(2)) }
insert_cap(list, c) == IF Len(list) = c THEN SaturatingMul2(c) ELSE c

\* insert: self.cur_size += val.resident_size() leaves the range of usize
insert_overflows(cur, v) == cur + resident_size(v) > WordMax

\* insert: self.cur_size -= lru.resident_size() subtracts more than cur_size
\* holds by then
insert_underflows(cur, v, old) ==
    old # None /\ resident_size(old[1]) > AddUsize(cur, resident_size(v))

\* variant: the displaced value is not subtracted
insert_total_nodisplaced(cur, v, old) == AddUsize(cur, resident_size(v))

\* variant: the size of the new value is not added
insert_total_noadd(cur, v, old) ==
    IF old = None THEN cur ELSE SubUsize(cur, resident_size(old[1]))

\* insert, the accounting step: self.cur_size += val.resident_size();
\*     if let Some(lru) = self.inner.put(key, val)
\*         { self.cur_size -= lru.resident_size() }
insert_total(cur, v, old) ==
    LET added == AddUsize(cur, resident_size(v))
    IN  IF old = None THEN added ELSE SubUsize(added, resident_size(old[1]))

\* MemoryLruCache::insert(key, val), where `+=` wraps around if it leaves the
\* range of usize.  (\E x \in {e} names the value e.)
insert(k, v) ==
    \E next_cap \in {insert_cap(inner, cap)} :
    \E p \in {LruPut(inner, next_cap, k, v)} :
    \E r \in {readjust_down(p.list, insert_total(cur_size, v, p.old),
                             max_size, NoRun)} :
        /\ Running
        /\ cap' = next_cap
        /\ inner' = r.list
        /\ cur_size' = r.cur
        /\ last' = [op |-> "insert", key |-> k, val |-> Some(v), ret |-> None,
                    displaced |-> p.old, evicted |-> r.evicted,
                    iters |-> r.iters,
                    under |-> r.under \/ insert_underflows(cur_size, v, p.old)]
        /\ arith' = IF insert_overflows(cur_size, v) THEN "wrapped" ELSE arith
        /\ UNCHANGED max_size

\* MemoryLruCache::insert(key, val), where `+=` panics when it leaves the range
\* of usize: the store may have been grown, nothing else has happened
insert_panic(k, v) ==
    /\ arith = "exact"
    /\ insert_overflows(cur_size, v)
    /\ cap' = insert_cap(inner, cap)
    /\ last' = Call("insert", k, Some(v), None)
    /\ arith' = "panicked"
    /\ UNCHANGED <<inner, cur_size, max_size>>

\* variant: get goes through the accessor that does not promote
get_peeking(k) ==
    /\ Running
    /\ last' = Call("get", k, None, LruPeek(inner, k))
    /\ UNCHANGED <<cache, arith>>

\* MemoryLruCache::get(key)
get(k) ==
    /\ Running
    /\ inner' = LruPromote(inner, k)
    /\ last' = Call("get", k, None, LruPeek(inner, k))
    /\ UNCHANGED <<cap, cur_size, max_size, arith>>

\* with_mut: self.cur_size -= prev_size subtracts more than cur_size holds
with_mut_underflows(cur, prev_size) == prev_size > cur

\* with_mut: self.cur_size += new_size leaves the range of usize
with_mut_overflows(cur, prev_size, new_size) ==
    SubUsize(cur, prev_size) + new_size > WordMax

\* variant: the previous size is not subtracted
with_mut_total_nosub(cur, prev_size, new_size) == AddUsize(cur, new_size)

\* with_mut, the accounting step: self.cur_size -= prev_size;
\*     self.cur_size += new_size;
with_mut_total(cur, prev_size, new_size) ==
    AddUsize(SubUsize(cur, prev_size), new_size)

\* variant: the handle is taken without promoting the entry
with_mut_handle_peek(list, k) == list

\* with_mut, the handle: let mut val = self.inner.get_mut(key);
with_mut_handle(list, k) == LruPromote(list, k)

\* variant: the closure is handed a fresh slot when the key is absent
with_mut_call_upsert(list, k, nv) ==
    IF k \in KeysOf(list)
    THEN [list EXCEPT ![IndexOf(list, k)].val = nv]
    ELSE Append(list, [key |-> k, val |-> nv])

\* with_mut, the closure call: with(val.as_mut()) stores nv into the value
\* under k, if there is one
with_mut_call(list, k, nv) ==
    IF k \in KeysOf(list)
    THEN [list EXCEPT ![IndexOf(list, k)].val = nv]
    ELSE list

\* MemoryLruCache::with_mut(key, with), where `+=` wraps around if it leaves
\* the range of usize.  The closure `with` stores nv into the value it is
\* handed, if any, and returns a copy of what it was handed.
with_mut(k, nv) ==
    \E val \in {LruPeek(inner, k)} :
    \E mutated \in {with_mut_call(with_mut_handle(inner, k), k, nv)} :
    \E prev_size \in {map_or_size(val)} :
    \E new_size \in {map_or_size(LruPeek(mutated, k))} :
    \E r \in {readjust_down(mutated,
                             with_mut_total(cur_size, prev_size, new_size),
                             max_size, NoRun)} :
        /\ Running
        /\ inner' = r.list
        /\ cur_size' = r.cur
        /\ last' = [op |-> "with_mut", key |-> k, val |-> Some(nv), ret |-> val,
                    displaced |-> None, evicted |-> r.evicted,
                    iters |-> r.iters,
                    under |-> r.under \/ with_mut_underflows(cur_size, prev_size)]
        /\ arith' = IF with_mut_overflows(cur_size, prev_size, new_size)
                    THEN "wrapped" ELSE arith
        /\ UNCHANGED <<cap, max_size>>

\* MemoryLruCache::with_mut(key, with), where `+=` panics when it leaves the
\* range of usize: the entry is promoted and mutated, prev_size is subtracted
with_mut_panic(k, nv) ==
    \E val \in {LruPeek(inner, k)} :
    \E mutated \in {with_mut_call(with_mut_handle(inner, k), k, nv)} :
    \E prev_size \in {map_or_size(val)} :
    \E new_size \in {map_or_size(LruPeek(mutated, k))} :
        /\ arith = "exact"
        /\ with_mut_overflows(cur_size, prev_size, new_size)
        /\ inner' = mutated
        /\ cur_size' = SubUsize(cur_size, prev_size)
        /\ last' = Call("with_mut", k, Some(nv), val)
        /\ arith' = "panicked"
        /\ UNCHANGED <<cap, max_size>>

\* MemoryLruCache::current_size()
current_size ==
    /\ Running
    /\ last' = Call("current_size", 0, None, Some(cur_size))
    /\ UNCHANGED <<cache, arith>>

\* MemoryLruCache::len()
len ==
    /\ Running
    /\ last' = Call("len", 0, None, Some(Len(inner)))
    /\ UNCHANGED <<cache, arith>>

\* MemoryLruCache::contains(key)
contains(k) ==
    /\ Running
    /\ last' = Call("contains", k, None, Some(LruContains(inner, k)))
    /\ UNCHANGED <<cache, arith>>

\* MemoryLruCache::is_empty()
is_empty ==
    /\ Running
    /\ last' = Call("is_empty", 0, None, Some(Len(inner) = 0))
    /\ UNCHANGED <<cache, arith>>

\* variant: peek goes through the promoting accessor
peek_promoting(k) ==
    /\ Running
    /\ inner' = LruPromote(inner, k)
    /\ last' = Call("peek", k, None, LruPeek(inner, k))
    /\ UNCHANGED <<cap, cur_size, max_size, arith>>

\* MemoryLruCache::peek(key)
peek(k) ==
    /\ Running
    /\ last' = Call("peek", k, None, LruPeek(inner, k))
    /\ UNCHANGED <<cache, arith>>

\* Callers whose values report small sizes: no total leaves the range of usize.
Next ==
    \/ \E k \in Keys, v \in Values : insert(k, v)
    \/ \E k \in Keys : get(k)
    \/ \E k \in Keys, nv \in Values : with_mut(k, nv)
    \/ current_size
    \/ len
    \/ \E k \in Keys : contains(k)
    \/ is_empty
    \/ \E k \in Keys : peek(k)

Spec == Init /\ [][Next]_vars

\* The cache of tests::it_works_if_cur_size_equals_max_size: max_size 8, keys
\* 1..5, values of at most two bytes.  Five entries fit, so the store outgrows
\* its initial capacity.
InitCap ==
    /\ max_size = TestMaxSize
    /\ inner = <<>>
    /\ cap = INITIAL_CAPACITY
    /\ cur_size = 0
    /\ last = NoCall
    /\ arith = "exact"

NextCap ==
    \/ \E k \in TestKeys, v \in TestValues : insert(k, v)
    \/ \E k \in TestKeys : get(k)
    \/ \E k \in TestKeys, nv \in TestValues : with_mut(k, nv)
    \/ current_size
    \/ len
    \/ \E k \in TestKeys : contains(k)
    \/ is_empty
    \/ \E k \in TestKeys : peek(k)

SpecCap == InitCap /\ [][NextCap]_vars

\* Callers whose values report any size of the machine word, on a build with
\* or without overflow checks.
InitW ==
    /\ max_size \in WBudgets
    /\ inner = <<>>
    /\ cap = INITIAL_CAPACITY
    /\ cur_size = 0
    /\ last = NoCall
    /\ arith = "exact"

NextW ==
    \/ \E k \in WKeys, v \in WValues : insert(k, v)
    \/ \E k \in WKeys, v \in WValues : insert_panic(k, v)
    \/ \E k \in WKeys : get(k)
    \/ \E k \in WKeys, nv \in WValues : with_mut(k, nv)
    \/ \E k \in WKeys, nv \in WValues : with_mut_panic(k, nv)
    \/ current_size
    \/ len
    \/ \E k \in WKeys : contains(k)
    \/ is_empty
    \/ \E k \in WKeys : peek(k)

SpecW == InitW /\ [][NextW]_vars

TypeOK ==
    /\ max_size \in 0..WordMax
    /\ cur_size \in 0..WordMax
    /\ cap \in 1..WordMax
    /\ arith \in {"exact", "wrapped", "panicked"}

(* ------------------------------ properties ---------------------------- *)

\* the argument value of the last insert or with_mut
LastVal == last.val[1]
\* the last call was with_mut on a key that was present
MutatedPresent == last.op = "with_mut" /\ last.ret # None

\* C1: after every call returns, current_size() equals the sum of
\* resident_size() over all entries held in the store.
C1_Accounting == cur_size = SumSizes(inner)

\* C1 witness: a call that replaced or mutated a value and evicted another
\* entry, leaving entries behind.
C1_Witness ==
    /\ last.op \in {"insert", "with_mut"}
    /\ last.evicted # <<>>
    /\ Len(inner) >= 2
    /\ cur_size > 0

\* C2: after any public operation returns, current_size() <= max_size, unless
\* a single resident entry's own resident_size exceeds max_size.
C2_BudgetBound ==
    \/ cur_size <= max_size
    \/ \E i \in 1..Len(inner) : resident_size(inner[i].val) > max_size

\* C2 witness: an insert that had to evict two entries to get back within
\* the budget.
C2_Witness ==
    /\ last.op = "insert"
    /\ Len(last.evicted) >= 2
    /\ inner # <<>>
    /\ cur_size = max_size

\* C3 as stated: after insert(k, v) with v.resident_size() > max_size the
\* cache retains exactly that entry and current_size() == v.resident_size().
C3_OversizedRetained ==
    (last.op = "insert" /\ resident_size(LastVal) > max_size)
        => /\ Len(inner) = 1
           /\ LruPeek(inner, last.key) = last.val
           /\ cur_size = resident_size(LastVal)

\* C3 amended: after insert(k, v) with v.resident_size() > max_size returns,
\* every entry, k included, has been evicted: len() == 0, peek(k) is none
\* and current_size() == 0.
C3_OversizedEvicted ==
    (last.op = "insert" /\ resident_size(LastVal) > max_size)
        => /\ Len(inner) = 0
           /\ LruPeek(inner, last.key) = None
           /\ cur_size = 0
           /\ last.evicted[Len(last.evicted)] = [key |-> last.key, val |-> LastVal]

\* C3 witness: an oversized insert into a cache that held two other entries.
C3_Witness ==
    /\ last.op = "insert"
    /\ resident_size(LastVal) > max_size
    /\ Len(last.evicted) >= 3

\* recency rank of key x when the eviction pass of a call on key k starts:
\* k has just been put or promoted, the rest keep their place in `list`
Rank(list, k, x) == IF x = k THEN Len(list) + 1 ELSE IndexOf(list, x)

\* C4: whenever an insert or with_mut evicts entries, every evicted entry was
\* less recently used than every entry that remains, and the entries are
\* evicted least recently used first (A before B before C).
C4_EvictionOrder ==
    [][(last'.op \in {"insert", "with_mut"} /\ last'.evicted # <<>>)
        => \A k  \in {last'.key} :
           \A ev \in {last'.evicted} :
               /\ \A i \in 1..Len(ev) : \A r \in KeysOf(inner') :
                      Rank(inner, k, ev[i].key) < Rank(inner, k, r)
               /\ \A i \in 1..Len(ev) : \A j \in 1..Len(ev) :
                      i < j => Rank(inner, k, ev[i].key) < Rank(inner, k, ev[j].key)
               /\ KeysOf(ev) = (KeysOf(inner) \cup {k}) \ KeysOf(inner')
      ]_vars

\* C4 witness: keys inserted in the order A, B, C of which A and B, in that
\* order, were evicted by the insert of C, which remains.
C4_Witness ==
    /\ last.op = "insert"
    /\ Len(last.evicted) = 2
    /\ last.evicted[1].key # last.evicted[2].key
    /\ KeysOf(inner) = {last.key}

\* keys x and y, both other than k, are in the same relative order in a and b
SameOrder(a, b, k) ==
    \A x \in KeysOf(a) \ {k} : \A y \in KeysOf(a) \ {k} :
        (IndexOf(a, x) < IndexOf(a, y)) <=> (IndexOf(b, x) < IndexOf(b, y))

\* C5: get(k) on a present key makes k the most recently used entry, so an
\* eviction pass on the resulting state, whatever the budget, pops k only
\* after every other entry; membership, values, current_size(), capacity and
\* the relative order of the other keys are unchanged, and the value under k
\* is returned.
C5_GetPromotes ==
    [][(last'.op = "get" /\ last'.key \in KeysOf(inner))
        => \A k \in {last'.key} :
               /\ inner'[Len(inner')].key = k
               /\ Len(inner') = Len(inner)
               /\ \A x \in Keys : LruPeek(inner', x) = LruPeek(inner, x)
               /\ SameOrder(inner, inner', k)
               /\ <<cap', cur_size', max_size'>> = <<cap, cur_size, max_size>>
               /\ last'.ret = LruPeek(inner, k)
               /\ \A b \in 0..max_size :
                      \A r \in {readjust_down(inner', cur_size', b, NoRun)} :
                          k \in KeysOf(r.evicted) => r.list = <<>>
      ]_vars

\* C5 witness: a get that found its key in a cache of three entries.
C5_Witness ==
    /\ last.op = "get"
    /\ last.ret # None
    /\ Len(inner) = 3
    /\ inner[3].key = last.key

ReadOnlyOps == {"peek", "contains", "len", "is_empty", "current_size"}

\* C6: peek, contains, len, is_empty and current_size leave the cache state
\* unchanged: recency order, membership, values, current_size and capacity.
C6_ReadOnly ==
    [][last'.op \in ReadOnlyOps
        => <<inner', cap', cur_size', max_size'>> = <<inner, cap, cur_size, max_size>>
      ]_vars

\* C6 witness: a peek that found its key while another entry was the most
\* recently used one.
C6_Witness ==
    /\ last.op = "peek"
    /\ last.ret # None
    /\ Len(inner) >= 2
    /\ inner[Len(inner)].key # last.key

\* the entries of `list`, with nv under k, whose keys are gone from `post`
Gone(list, k, nv, post) ==
    SelectSeq([i \in 1..Len(list) |->
                  IF list[i].key = k THEN [key |-> k, val |-> nv] ELSE list[i]],
              LAMBDA e : e.key \notin KeysOf(post))

\* C7: with_mut(k, f) on a present key whose value has size s before f and
\* s2 after leaves current_size() at the old total - s + s2 minus the sizes
\* of the entries evicted by the call; when old total - s + s2 <= max_size
\* nothing is evicted and current_size() changes by exactly s2 - s.
C7_WithMutAccounting ==
    [][(last'.op = "with_mut" /\ last'.key \in KeysOf(inner))
        => \A k  \in {last'.key} :
           \A s  \in {resident_size(LruPeek(inner, k)[1])} :
           \A s2 \in {resident_size(last'.val[1])} :
           \A ev \in {Gone(inner, k, last'.val[1], inner')} :
               /\ cur_size' = cur_size - s + s2 - SumSizes(ev)
               /\ KeysOf(ev) = KeysOf(last'.evicted)
               /\ SumSizes(ev) = SumSizes(last'.evicted)
               /\ (cur_size - s + s2 <= max_size)
                      => /\ ev = <<>>
                         /\ cur_size' - cur_size = s2 - s
                         /\ LruPeek(inner', k) = last'.val
      ]_vars

\* C7 witness: a with_mut that changed the size of a present value and
\* evicted another entry while keeping the mutated one.
C7_Witness ==
    /\ MutatedPresent
    /\ resident_size(LastVal) # resident_size(last.ret[1])
    /\ last.evicted # <<>>
    /\ last.key \in KeysOf(inner)

\* C8 as stated: for every with_mut(k, f) on a present key, whatever size f
\* gives the value, k is still present when the call returns.
C8_MutatedNeverEvicted ==
    MutatedPresent => last.key \in KeysOf(inner)

\* C8 amended: with_mut(k, f) on a present key keeps k, with the value f
\* left, and evicts only other entries, whenever the size f gives the value
\* is <= max_size; when that size exceeds max_size every entry, k included,
\* is evicted.
C8_MutatedKeptIfFits ==
    MutatedPresent
        => IF resident_size(LastVal) <= max_size
           THEN /\ LruPeek(inner, last.key) = last.val
                /\ last.key \notin KeysOf(last.evicted)
           ELSE /\ inner = <<>>
                /\ last.evicted[Len(last.evicted)] =
                       [key |-> last.key, val |-> LastVal]

\* C8 witness: a with_mut that grew a present value to a size within the
\* budget and evicted two other entries to make room.
C8_Witness ==
    /\ MutatedPresent
    /\ resident_size(LastVal) > resident_size(last.ret[1])
    /\ resident_size(LastVal) <= max_size
    /\ Len(last.evicted) >= 2

KeysUnique ==
    \A i \in 1..Len(inner) : \A j \in 1..Len(inner) :
        inner[i].key = inner[j].key => i = j

\* C9: insert(k, v2) on a key present with value v replaces the value and
\* subtracts v's size; when the resulting total is <= max_size no other key
\* is removed, len() is unchanged, peek(k) returns v2 and current_size()
\* changes by exactly size(v2) - size(v).  Keys are unique in every state.
C9_Replacement ==
    /\ []KeysUnique
    /\ [][(last'.op = "insert" /\ last'.key \in KeysOf(inner))
            => \A k  \in {last'.key} :
               \A v  \in {LruPeek(inner, k)[1]} :
               \A v2 \in {last'.val[1]} :
               \A ev \in {Gone(inner, k, v2, inner')} :
                   /\ last'.displaced = Some(v)
                   /\ cur_size' = cur_size - resident_size(v) + resident_size(v2)
                                     - SumSizes(ev)
                   /\ (cur_size - resident_size(v) + resident_size(v2) <= max_size)
                          => /\ KeysOf(inner') = KeysOf(inner)
                             /\ Len(inner') = Len(inner)
                             /\ LruPeek(inner', k) = Some(v2)
                             /\ \A x \in Keys \ {k} :
                                    LruPeek(inner', x) = LruPeek(inner, x)
                             /\ cur_size' - cur_size =
                                    resident_size(v2) - resident_size(v)
          ]_vars

\* C9 witness: an insert that replaced a value by one of another size
\* without evicting anything, other entries being present.
C9_Witness ==
    /\ last.op = "insert"
    /\ last.displaced # None
    /\ resident_size(last.displaced[1]) # resident_size(LastVal)
    /\ last.evicted = <<>>
    /\ Len(inner) >= 2

\* C10: after insert(k, v) with v.resident_size() <= max_size returns, k is
\* present, get/peek(k) returns v, k is the most recently used entry and
\* every key evicted to make room is absent.
C10_LastWriteWins ==
    (last.op = "insert" /\ resident_size(LastVal) <= max_size)
        => /\ last.key \in KeysOf(inner)
           /\ LruPeek(inner, last.key) = last.val
           /\ inner[Len(inner)].key = last.key
           /\ \A i \in 1..Len(last.evicted) :
                  /\ last.evicted[i].key # last.key
                  /\ LruPeek(inner, last.evicted[i].key) = None

\* C10 witness (Scenario 1 at scale): a first value that fits, then a
\* second key whose value fits alone but not next to the first; only the
\* second key is left and current_size() is its size.
C10_Witness ==
    /\ last.op = "insert"
    /\ resident_size(LastVal) <= max_size
    /\ Len(last.evicted) = 1
    /\ resident_size(last.evicted[1].val) > 0
    /\ Len(inner) = 1
    /\ cur_size = resident_size(LastVal)

\* the total an insert or with_mut on key k with value v hands to the
\* eviction pass, computed from the state before the call
Handed(list, cur, op, k, v) ==
    IF op = "insert" \/ k \in KeysOf(list)
    THEN cur + resident_size(v) - map_or_size(LruPeek(list, k))
    ELSE cur

\* C11: an insert or with_mut evicts nothing when the total it reaches is
\* <= max_size, max_size itself included; otherwise it stops popping at the
\* first point where current_size() <= max_size, so that putting the last
\* evicted entry back would exceed max_size.
C11_MinimalEviction ==
    [][(last'.op \in {"insert", "with_mut"})
        => \A t  \in {Handed(inner, cur_size, last'.op, last'.key, last'.val[1])} :
           \A ev \in {last'.evicted} :
               /\ t <= max_size => (ev = <<>> /\ cur_size' = t)
               /\ t > max_size => ev # <<>>
               /\ ev # <<>> =>
                      /\ cur_size' = t - SumSizes(ev)
                      /\ cur_size' <= max_size
                      /\ cur_size' + resident_size(ev[Len(ev)].val) > max_size
      ]_vars

\* C11 witness (Scenario 2 at scale): equal values inserted under fresh keys
\* until one more than fits; exactly the oldest key is gone and
\* current_size() == max_size.
C11_Witness ==
    /\ last.op = "insert"
    /\ last.displaced = None
    /\ Len(last.evicted) = 1
    /\ Len(inner) = 2
    /\ \A i \in 1..2 : resident_size(inner[i].val) = resident_size(last.evicted[1].val)
    /\ cur_size = max_size

\* C12: the item-count capacity starts at 4, never decreases, and changes
\* only in insert, exactly when the store is full (len() == capacity) at the
\* start of that insert, in which case it doubles.
C12_CapacityMonotone ==
    /\ cap = 4
    /\ [][/\ cap' >= cap
          /\ cap' # cap => (last'.op = "insert" /\ Len(inner) = cap)
          /\ (last'.op = "insert" /\ Len(inner) = cap) => cap' = 2 * cap
         ]_vars

\* C12 witness (Scenario 2): keys 1..5 inserted in order with two-byte values;
\* the fifth insert found the store full, doubled the capacity and evicted
\* key 1.
C12_Witness ==
    /\ cap = 8
    /\ last.op = "insert"
    /\ last.key = 5
    /\ [i \in 1..Len(inner) |-> inner[i].key] = <<2, 3, 4, 5>>
    /\ cur_size = 8

\* C13: for a key not in the cache, get and peek return none, contains
\* returns false and with_mut hands none to the mutator and returns its
\* result; the cache state is unchanged and nothing is evicted.
C13_AbsentKey ==
    [][(last'.op \in {"get", "peek", "contains", "with_mut"}
            /\ last'.key \notin KeysOf(inner))
        => /\ <<inner', cap', cur_size', max_size'>> = <<inner, cap, cur_size, max_size>>
           /\ last'.evicted = <<>>
           /\ last'.ret = IF last'.op = "contains" THEN Some(FALSE) ELSE None
      ]_vars

\* C13 witness: a with_mut on an absent key while two other keys are held.
C13_Witness ==
    /\ last.op = "with_mut"
    /\ last.ret = None
    /\ last.key \notin KeysOf(inner)
    /\ Len(inner) = 2
    /\ cur_size > 0

\* C14 as stated: insert and with_mut complete normally for values of any
\* size of the machine word; the additions to cur_size never leave the range
\* of usize (no wrap-around, no panic).
C14_NoOverflow == arith = "exact"

\* C15 as stated: with max_size = 0 the cache is empty after every insert,
\* whatever the size of the value, 0 included.
C15_AlwaysEvicting ==
    (max_size = 0 /\ last.op = "insert") => inner = <<>>

\* C15 amended: with max_size = 0, an insert of a value of size > 0 leaves
\* the cache empty; an insert of a value of size 0 evicts nothing and the
\* entry is retained, so the cache holds entries of size 0 only.
C15_ZeroBudget ==
    (max_size = 0 /\ last.op = "insert")
        => /\ resident_size(LastVal) > 0 => inner = <<>>
           /\ resident_size(LastVal) = 0 =>
                  /\ last.evicted = <<>>
                  /\ LruPeek(inner, last.key) = last.val
           /\ cur_size = 0
           /\ \A i \in 1..Len(inner) : resident_size(inner[i].val) = 0

\* C15 witness: with max_size = 0, an insert of a value of size 0 next to
\* another retained entry.
C15_Witness ==
    /\ max_size = 0
    /\ last.op = "insert"
    /\ resident_size(LastVal) = 0
    /\ Len(inner) = 2

\* C16: no subtraction from cur_size goes below 0: the displaced value's size
\* in insert, the previous size in with_mut (taken before the new size is
\* added) and each popped value's size in the eviction pass are all at most
\* the value cur_size has at that point.
C16_NoUnderflow == last.under = FALSE

\* C16 witness: a with_mut on a present value of size > 0 followed by an
\* eviction pass that popped entries, every subtraction staying within
\* cur_size.
C16_Witness ==
    /\ MutatedPresent
    /\ resident_size(last.ret[1]) > 0
    /\ last.evicted # <<>>
    /\ last.iters = Len(last.evicted)
    /\ ~last.under

\* C17: with_mut(k, f) on a present key makes k the most recently used entry
\* before the eviction pass: the pass walks the other entries in their old
\* order, least recently used first, and reaches k last.
C17_WithMutPromotes ==
    [][(last'.op = "with_mut" /\ last'.key \in KeysOf(inner))
        => last'.evicted \o inner'
              = Without(inner, last'.key)
                    \o <<[key |-> last'.key, val |-> last'.val[1]]>>
      ]_vars

\* C17 witness: a with_mut whose growth evicted exactly one other entry and
\* left the mutated key as the only, most recently used, entry.
C17_Witness ==
    /\ MutatedPresent
    /\ Len(last.evicted) = 1
    /\ last.evicted[1].key # last.key
    /\ Len(inner) = 1
    /\ inner[1] = [key |-> last.key, val |-> LastVal]

\* C18: the eviction loop of an insert or with_mut performs at most as many
\* iterations as the store held entries when the loop started; every
\* iteration pops one entry, or finds the store empty and stops.
C18_EvictionTerminates ==
    (last.op \in {"insert", "with_mut"})
        => /\ last.iters <= Len(last.evicted) + Len(inner)
           /\ \/ last.iters = Len(last.evicted)
              \/ last.iters = Len(last.evicted) + 1 /\ inner = <<>>

\* C18 witness: an eviction loop that ran once for each of three entries in
\* the store and emptied it.
C18_Witness ==
    /\ last.op \in {"insert", "with_mut"}
    /\ last.iters = 3
    /\ Len(last.evicted) = 3
    /\ inner = <<>>

\* C19: while the capacity is below the largest representable count, the
\* store holds fewer than capacity entries at the moment insert puts the
\* entry, so the put displaces no other key; keys leave the cache only as
\* entries popped by the eviction pass, the accounting stays exact, and
\* len() <= capacity in every reachable state.
C19_CountNeverEvicts ==
    /\ [](Len(inner) <= cap /\ cur_size = SumSizes(inner))
    /\ [][/\ (last'.op = "insert" /\ cap' < WordMax) => Len(inner) < cap'
          /\ \A i \in 1..Len(inner) :
                 \/ inner[i].key \in KeysOf(inner')
                 \/ inner[i].key \in KeysOf(last'.evicted)
         ]_vars

\* C19 witness: an insert of a fifth key into a store that was full at the
\* initial capacity; all five entries are held.
C19_Witness ==
    /\ last.op = "insert"
    /\ last.displaced = None
    /\ last.evicted = <<>>
    /\ Len(inner) = 5
    /\ cap = 8

\* C20: after every insert and every with_mut, current_size() <= max_size;
\* when the value written (inserted, or left by the mutator under a present
\* key) is itself larger than max_size, every entry is evicted: len() == 0
\* and current_size() == 0.
C20_BoundWithoutException ==
    (last.op \in {"insert", "with_mut"})
        => /\ cur_size <= max_size
           /\ ((last.op = "insert" \/ MutatedPresent)
                   /\ resident_size(LastVal) > max_size)
                  => (Len(inner) = 0 /\ cur_size = 0)

\* C20 witness: a with_mut that grew a present value beyond max_size while
\* another entry was resident; both are gone.
C20_Witness ==
    /\ MutatedPresent
    /\ resident_size(LastVal) > max_size
    /\ resident_size(last.ret[1]) <= max_size
    /\ Len(last.evicted) >= 2
    /\ inner = <<>>
    /\ cur_size = 0

====
